---- MODULE Spec2Model ----
(***************************************************************************)
(* Model of the chunked large-file buffer core of the editor:              *)
(*   FileLoadStore  (src/src/virtual_file.rs)  positional file IO         *)
(*   Memstore       (src/src/memstore.rs)      chunk cache + dirty flags   *)
(*   VirtualFile    (src/src/virtual_file.rs)  line cursor over chunks     *)
(* and of the command registry of its command palette:                     *)
(*   CommandRegistry (src/src/command_registry.rs)                         *)
(*                                                                         *)
(* Bytes are symbols; a chunk is a sequence of bytes, a line a sequence of *)
(* characters, a window (chunk_lines) an Option of a sequence of lines.    *)
(* A Rust panic ends the process: status becomes "panicked" and no         *)
(* operation is enabled afterwards.                                        *)
(***************************************************************************)
EXTENDS Integers, Sequences, FiniteSets, TLC

\* ------------------------------------------------------------ bounds
MaxFileLen == 2
MaxChunkSize == 2
MaxChunkIdx == 2
MaxWindow == 3
MaxLineIdx == 2
MaxPlugins == 3
MaxSuggestions == 5
MaxAreaHeight == 6

\* ------------------------------------------------------------ values
NL == "\n"
ZeroByte == "0x00"
BadByte == "0xFF"
ReplacementChar == "U+FFFD"

\* bytes of the model: an ASCII letter, the terminator, a byte that is not valid
\* UTF-8, and the zero byte a short read leaves in the buffer
TextByte == {"a", NL}
Byte == TextByte \cup {BadByte, ZeroByte}

None == [tag |-> "None"]
Some(v) == [tag |-> "Some", val |-> v]
Unit == [tag |-> "Unit"]
Panic == [tag |-> "Panic"]

Loaded(d, ns) == [tag |-> "Loaded", data |-> d, need_store |-> ns]
Empty == [tag |-> "Empty"]

Min(a, b) == IF a < b THEN a ELSE b
Max(a, b) == IF a > b THEN a ELSE b

SeqsUpTo(S, n) == UNION {[1..k -> S] : k \in 0..n}

\* the files a run may start from: every text up to MaxFileLen bytes, and one
\* file that is not valid UTF-8
Files == SeqsUpTo(TextByte, MaxFileLen) \cup {<<BadByte>>}

\* the chunk sizes a run may be constructed with (chunk_size > 0)
ChunkSizes == {1, MaxChunkSize}

VARIABLES
    file,                 \* bytes persisted in the backing file
    chunk_size,           \* VirtualFile.chunk_size = Memstore.chunk_size = FileLoadStore.chunk_size
    overflow_checks,      \* build profile: TRUE = arithmetic overflow panics, FALSE = it wraps
    chunk_index,          \* VirtualFile.chunk_index
    line_index_in_chunk,  \* VirtualFile.line_index_in_chunk
    chunk_lines,          \* VirtualFile.chunk_lines : Option<Vec<LoadedLine>>
    chunks,               \* Memstore.chunks : HashMap<u64, Chunk>
    status,               \* "running" | "panicked"
    last,                 \* observer: the operation that ran last and its argument
    result,               \* observer: what that operation returned
    ioLog,                \* observer: the backing-store calls that operation issued, in order
    loadCount,            \* observer: number of load calls issued so far, per chunk index
    scan,                 \* observer: lines returned so far by a cursor driven only by next_line
    builtin_commands,     \* CommandRegistry.builtin_commands : Vec<Command>
    plugin_commands,      \* CommandRegistry.plugin_commands : the Vec<Command> inside the RwLock
    lock,                 \* the RwLock of plugin_commands: its writer and its readers
    pc,                   \* per thread: the registry call it is in and where in it
    stable                \* observer: names registered by a finished register and not
                          \* touched by an unregister call since

bufVars == <<file, chunk_size, overflow_checks, chunk_index, line_index_in_chunk,
             chunk_lines, chunks, status, ioLog, loadCount, scan>>
regVars == <<builtin_commands, plugin_commands>>
thrVars == <<lock, pc, stable>>

vars == <<file, chunk_size, overflow_checks, chunk_index, line_index_in_chunk,
          chunk_lines, chunks, status, last, result, ioLog, loadCount, scan,
          builtin_commands, plugin_commands, lock, pc, stable>>

\* ------------------------------------------------------------ FileLoadStore

\* read_at: the bytes of f in [x, x + n), fewer at the end of the file
ReadAt(f, x, n) == SubSeq(f, x + 1, Min(Len(f), x + n))

\* vec![0; chunk_size] overwritten by what read_at returned
ZeroPadded(bytes, n) == [k \in 1..n |-> IF k <= Len(bytes) THEN bytes[k] ELSE ZeroByte]

\* FileLoadStore::load: always Some(buf) unless read_at fails, and then expect() panics
FileLoadStore_load(f, cs, x, io_ok) ==
    IF io_ok THEN Some(ZeroPadded(ReadAt(f, x, cs), cs)) ELSE Panic

\* write_at: buf written at offset x, the file extended (zero-filled gap) when needed
WriteAt(f, x, buf) ==
    [k \in 1..Max(Len(f), x + Len(buf)) |->
        IF k > x /\ k <= x + Len(buf) THEN buf[k - x]
        ELSE IF k <= Len(f) THEN f[k] ELSE ZeroByte]

\* FileLoadStore::store: unit unless write_at fails, and then expect() panics
FileLoadStore_store(f, x, buf, io_ok) ==
    IF io_ok THEN [file |-> WriteAt(f, x, buf), ret |-> Unit]
    ELSE [file |-> f, ret |-> Panic]

LoadCall(x, io_ok) == [op |-> "load", offset |-> x, ok |-> io_ok]
StoreCall(x, buf, io_ok) == [op |-> "store", offset |-> x, data |-> buf, ok |-> io_ok]

\* ------------------------------------------------------------ Memstore

\* Memstore::get with insert in place of or_insert_with_key: every call loads
Memstore_get_AlwaysLoads(chs, cs, f, index, io_ok) ==
    LET r == FileLoadStore_load(f, cs, index * cs, io_ok)
        c == IF r.tag = "Some" THEN Loaded(r.val, FALSE) ELSE Empty
    IN IF r.tag = "Panic"
       THEN [chunks |-> chs, ret |-> Panic, io |-> <<LoadCall(index * cs, io_ok)>>]
       ELSE [chunks |-> [i \in DOMAIN chs \cup {index} |-> IF i = index THEN c ELSE chs[i]],
             ret |-> Some(c), io |-> <<LoadCall(index * cs, io_ok)>>]

\* Memstore::get over a cache of one entry: a miss drops every other entry
Memstore_get_EvictsOthers(chs, cs, f, index, io_ok) ==
    IF index \in DOMAIN chs
    THEN [chunks |-> chs, ret |-> Some(chs[index]), io |-> <<>>]
    ELSE LET r == FileLoadStore_load(f, cs, index * cs, io_ok)
             c == IF r.tag = "Some" THEN Loaded(r.val, FALSE) ELSE Empty
         IN IF r.tag = "Panic"
            THEN [chunks |-> chs, ret |-> Panic, io |-> <<LoadCall(index * cs, io_ok)>>]
            ELSE [chunks |-> (index :> c), ret |-> Some(c),
                  io |-> <<LoadCall(index * cs, io_ok)>>]

\* Memstore::get caching what it loads with need_store: true
Memstore_get_LoadsDirty(chs, cs, f, index, io_ok) ==
    IF index \in DOMAIN chs
    THEN [chunks |-> chs, ret |-> Some(chs[index]), io |-> <<>>]
    ELSE LET r == FileLoadStore_load(f, cs, index * cs, io_ok)
             c == IF r.tag = "Some" THEN Loaded(r.val, TRUE) ELSE Empty
         IN IF r.tag = "Panic"
            THEN [chunks |-> chs, ret |-> Panic, io |-> <<LoadCall(index * cs, io_ok)>>]
            ELSE [chunks |-> chs @@ (index :> c), ret |-> Some(c),
                  io |-> <<LoadCall(index * cs, io_ok)>>]

\* Memstore::get: entry(chunk_index).or_insert_with_key(load ...)
Memstore_get(chs, cs, f, index, io_ok) ==
    IF index \in DOMAIN chs
    THEN [chunks |-> chs, ret |-> Some(chs[index]), io |-> <<>>]
    ELSE LET r == FileLoadStore_load(f, cs, index * cs, io_ok)
             c == IF r.tag = "Some" THEN Loaded(r.val, FALSE) ELSE Empty
         IN IF r.tag = "Panic"
            THEN [chunks |-> chs, ret |-> Panic, io |-> <<LoadCall(index * cs, io_ok)>>]
            ELSE [chunks |-> chs @@ (index :> c), ret |-> Some(c),
                  io |-> <<LoadCall(index * cs, io_ok)>>]

\* one step of the for loop of store_all over the map's entries, taken in the
\* order the HashMap iterates them; fail_at is the store call that fails (0: none)
RECURSIVE StoreLoop(_, _, _, _, _)
StoreLoop(st, cs, order, k, fail_at) ==
    IF k > Len(order) \/ st.ret = Panic THEN st
    ELSE LET i == order[k]
             c == st.chunks[i]
         IN IF c.tag = "Loaded" /\ c.need_store
            THEN LET io_ok == (Len(st.io) + 1 # fail_at)
                     r == FileLoadStore_store(st.file, i * cs, c.data, io_ok)
                     io2 == Append(st.io, StoreCall(i * cs, c.data, io_ok))
                 IN IF r.ret = Panic
                    THEN [st EXCEPT !.io = io2, !.ret = Panic]
                    ELSE StoreLoop([chunks |-> [st.chunks EXCEPT ![i].need_store = FALSE],
                                    file |-> r.file, io |-> io2, ret |-> Unit],
                                   cs, order, k + 1, fail_at)
            ELSE StoreLoop(st, cs, order, k + 1, fail_at)

\* Memstore::store_all without the `if *is_modified` test: every Loaded chunk is written
Memstore_store_all_WritesClean(chs, cs, f, order, fail_at) ==
    StoreLoop([chunks |-> [i \in DOMAIN chs |->
                              IF chs[i].tag = "Loaded" THEN Loaded(chs[i].data, TRUE) ELSE chs[i]],
               file |-> f, io |-> <<>>, ret |-> Unit], cs, order, 1, fail_at)

\* Memstore::store_all without `*is_modified = false`: the flags stay set
Memstore_store_all_KeepsFlags(chs, cs, f, order, fail_at) ==
    [StoreLoop([chunks |-> chs, file |-> f, io |-> <<>>, ret |-> Unit], cs, order, 1, fail_at)
        EXCEPT !.chunks = chs]

\* Memstore::store_all that forgets a chunk's bytes once it has stored them
Memstore_store_all_ClearsStored(chs, cs, f, order, fail_at) ==
    LET r == StoreLoop([chunks |-> chs, file |-> f, io |-> <<>>, ret |-> Unit], cs, order, 1, fail_at)
    IN [r EXCEPT !.chunks = [i \in DOMAIN chs |-> IF r.chunks[i] = chs[i] THEN chs[i] ELSE Empty]]

\* Memstore::store_all
Memstore_store_all(chs, cs, f, order, fail_at) ==
    StoreLoop([chunks |-> chs, file |-> f, io |-> <<>>, ret |-> Unit], cs, order, 1, fail_at)

Perms(S) == {p \in [1..Cardinality(S) -> S] : \A a, b \in 1..Cardinality(S) : p[a] = p[b] => a = b}

RECURSIVE Ascending(_)
Ascending(S) ==
    IF S = {} THEN <<>>
    ELSE LET m == CHOOSE x \in S : \A y \in S : x <= y IN <<m>> \o Ascending(S \ {m})

\* the keys whose entry the loop of store_all acts on
NeedStore(chs) == {i \in DOMAIN chs : chs[i].tag = "Loaded" /\ chs[i].need_store}

\* the orders in which the HashMap may be iterated, up to the position of the
\* entries the loop skips (they are put last: skipping them has no effect)
IterOrders(chs) == {p \o Ascending(DOMAIN chs \ NeedStore(chs)) : p \in Perms(NeedStore(chs))}

\* ------------------------------------------------------------ VirtualFile

\* String::from_utf8_lossy on the model's bytes: ASCII bytes (NUL included) are
\* kept, a byte that is not valid UTF-8 becomes U+FFFD
Utf8Lossy(data) == [k \in 1..Len(data) |-> IF data[k] = BadByte THEN ReplacementChar ELSE data[k]]

\* str::split on '\n': n terminators give n + 1 pieces, the empty ones included
RECURSIVE Split(_)
Split(s) ==
    IF \A k \in 1..Len(s) : s[k] # NL THEN <<s>>
    ELSE LET k == CHOOSE j \in 1..Len(s) : s[j] = NL /\ \A m \in 1..(j - 1) : s[m] # NL
         IN <<SubSeq(s, 1, k - 1)>> \o Split(SubSeq(s, k + 1, Len(s)))

\* VirtualFile::parse_chunk; LoadedLine::new(s) is the line holding the text s
parse_chunk(data) == Split(Utf8Lossy(data))

\* Option<Vec<_>>::unwrap_or(vec![])
UnwrapOrEmpty(o) == IF o.tag = "Some" THEN o.val ELSE <<>>

\* chunk_lines.as_mut().unwrap_or(&mut empty).append(more): when chunk_lines is
\* None the lines land in the temporary `empty` and are dropped
AppendInPlace(o, more) == IF o.tag = "Some" THEN Some(o.val \o more) ELSE None

\* VirtualFile::update_chunk_lines on v = [chunk_index, line_index_in_chunk, chunk_lines].
\* old_index - 1 at old_index = 0 is a u64 underflow: a panic with overflow checks,
\* u64::MAX without them (no new_index of the model equals u64::MAX).
update_chunk_lines(v, new_index, new_chunk_lines, checks) ==
    LET old_index == v.chunk_index
        v1 == [v EXCEPT !.chunk_index = new_index]
    IN IF new_index = old_index + 1
       THEN [v1 EXCEPT !.chunk_lines = AppendInPlace(v.chunk_lines, UnwrapOrEmpty(new_chunk_lines))]
                @@ [ret |-> Unit]
       ELSE IF old_index = 0 /\ checks
       THEN v1 @@ [ret |-> Panic]
       ELSE IF old_index > 0 /\ new_index = old_index - 1
       THEN [v1 EXCEPT !.line_index_in_chunk = @ + Len(UnwrapOrEmpty(new_chunk_lines)),
                       !.chunk_lines = AppendInPlace(new_chunk_lines, UnwrapOrEmpty(v.chunk_lines))]
                @@ [ret |-> Unit]
       ELSE [v1 EXCEPT !.chunk_lines = new_chunk_lines] @@ [ret |-> Unit]

\* VirtualFile::seek without the early return for the current chunk
seek_NoEarlyReturn(c, cs, f, offset, io_ok, checks) ==
    LET index == offset \div cs
        v == [chunk_index |-> c.chunk_index, line_index_in_chunk |-> c.line_index_in_chunk,
              chunk_lines |-> c.chunk_lines]
        g == Memstore_get(c.chunks, cs, f, index, io_ok)
    IN IF g.ret = Panic
       THEN c @@ [ret |-> Panic, io |-> g.io]
       ELSE LET new_chunk_lines == IF g.ret.val.tag = "Loaded"
                                   THEN Some(parse_chunk(g.ret.val.data))
                                   ELSE None
                u == update_chunk_lines(v, index, new_chunk_lines, checks)
            IN [chunk_index |-> u.chunk_index,
                line_index_in_chunk |-> IF u.ret = Panic THEN u.line_index_in_chunk ELSE 0,
                chunk_lines |-> u.chunk_lines,
                chunks |-> g.chunks, ret |-> u.ret, io |-> g.io]

\* VirtualFile::seek on c = [chunk_index, line_index_in_chunk, chunk_lines, chunks]
seek(c, cs, f, offset, io_ok, checks) ==
    LET index == offset \div cs
        v == [chunk_index |-> c.chunk_index, line_index_in_chunk |-> c.line_index_in_chunk,
              chunk_lines |-> c.chunk_lines]
    IN IF c.chunk_index = index
       THEN c @@ [ret |-> Unit, io |-> <<>>]
       ELSE LET g == Memstore_get(c.chunks, cs, f, index, io_ok)
            IN IF g.ret = Panic
               THEN c @@ [ret |-> Panic, io |-> g.io]
               ELSE LET new_chunk_lines == IF g.ret.val.tag = "Loaded"
                                           THEN Some(parse_chunk(g.ret.val.data))
                                           ELSE None
                        u == update_chunk_lines(v, index, new_chunk_lines, checks)
                    IN [chunk_index |-> u.chunk_index,
                        line_index_in_chunk |-> IF u.ret = Panic THEN u.line_index_in_chunk ELSE 0,
                        chunk_lines |-> u.chunk_lines,
                        chunks |-> g.chunks, ret |-> u.ret, io |-> g.io]

\* Option<Vec<_>>::map(|x| x.get_mut(index)).flatten(), index counted from 0
LineAt(o, index) == IF o.tag = "Some" /\ index < Len(o.val) THEN Some(o.val[index + 1]) ELSE None

\* VirtualFile::next_line on c = [chunk_index, line_index_in_chunk, chunk_lines, chunks];
\* the argument it passes to seek is chunk_index + 1
next_line(c, cs, f, io_ok, checks) ==
    LET lines_count == Len(UnwrapOrEmpty(c.chunk_lines))
        c1 == [c EXCEPT !.line_index_in_chunk = @ + 1]
        s == IF c1.line_index_in_chunk >= lines_count
             THEN seek(c1, cs, f, c1.chunk_index + 1, io_ok, checks)
             ELSE c1 @@ [ret |-> Unit, io |-> <<>>]
    IN IF s.ret = Panic THEN s
       ELSE [s EXCEPT !.ret = LineAt(s.chunk_lines, s.line_index_in_chunk)]

\* ------------------------------------------------------------ CommandRegistry
\* A name or a query is a sequence of characters. A Command is its name, its
\* description (which stands for the rest of its payload) and the set of its
\* contexts; a Suggestion is text, description and the disabled flag.

\* char::to_lowercase on the characters of the model
Lower(ch) == CASE ch = "S" -> "s" [] ch = "F" -> "f" [] OTHER -> ch

\* str::to_lowercase
to_lowercase(str) == [k \in DOMAIN str |-> Lower(str[k])]

\* str::starts_with
starts_with(str, prefix) ==
    Len(prefix) <= Len(str) /\ SubSeq(str, 1, Len(prefix)) = prefix

Command(name, description, contexts) ==
    [name |-> name, description |-> description, contexts |-> contexts]

Suggestion(text, description, disabled) ==
    [text |-> text, description |-> description, disabled |-> disabled]

KeyContext == {"Normal", "Help"}

SaveFile == <<"S", "f">>

\* get_all_commands(): the built-in command set, here "Save File" (every context)
\* and one command that only the Help context offers
get_all_commands ==
    <<Command(SaveFile, "builtin", {}), Command(<<"f">>, "builtin", {"Help"})>>

\* CommandRegistry::register without the retain: the command is only pushed
register_PushOnly(commands, command) == Append(commands, command)

\* CommandRegistry::register on the locked vector (Vec::retain is SelectSeq)
register(commands, command) ==
    Append(SelectSeq(commands, LAMBDA c : c.name # command.name), command)

\* CommandRegistry::unregister on the locked vector
unregister(commands, name) == SelectSeq(commands, LAMBDA c : c.name # name)

\* CommandRegistry::unregister_by_prefix comparing whole names instead of prefixes
unregister_by_prefix_WholeName(commands, prefix) ==
    SelectSeq(commands, LAMBDA c : c.name # prefix)

\* CommandRegistry::unregister_by_prefix on the locked vector
unregister_by_prefix(commands, prefix) ==
    SelectSeq(commands, LAMBDA c : ~starts_with(c.name, prefix))

\* CommandRegistry::get_all
get_all(builtin, plugin) == builtin \o plugin

\* the for loop of matches_query: the query characters not yet found when the
\* name's characters from position k on have been scanned
RECURSIVE ScanName(_, _, _)
ScanName(name_lower, k, query_chars) ==
    IF k > Len(name_lower) \/ query_chars = <<>> THEN query_chars
    ELSE IF Head(query_chars) = name_lower[k]
         THEN ScanName(name_lower, k + 1, Tail(query_chars))
         ELSE ScanName(name_lower, k + 1, query_chars)

\* the closure matches_query without to_lowercase on the command's name
matches_query_CaseSensitive(cmd, query) ==
    IF query = <<>> THEN TRUE
    ELSE ScanName(cmd.name, 1, to_lowercase(query)) = <<>>

\* the closure matches_query of filter
matches_query(cmd, query) ==
    IF query = <<>> THEN TRUE
    ELSE ScanName(to_lowercase(cmd.name), 1, to_lowercase(query)) = <<>>

\* the closure is_available of filter
is_available(cmd, current_context) ==
    cmd.contexts = {} \/ current_context \in cmd.contexts

\* the map of filter: the suggestion made of each command
suggestions_of(commands, current_context) ==
    [k \in 1..Len(commands) |->
        Suggestion(commands[k].name, commands[k].description,
                   ~is_available(commands[k], current_context))]

\* sort_by_key(|s| s.disabled): a stable sort on a boolean key, false first
sort_by_disabled(suggestions) ==
    SelectSeq(suggestions, LAMBDA x : ~x.disabled) \o SelectSeq(suggestions, LAMBDA x : x.disabled)

\* CommandRegistry::filter without the final sort
filter_Unsorted(builtin, plugin, query, current_context) ==
    suggestions_of(SelectSeq(get_all(builtin, plugin), LAMBDA cmd : matches_query(cmd, query)),
                   current_context)

\* CommandRegistry::filter
filter(builtin, plugin, query, current_context) ==
    sort_by_disabled(
        suggestions_of(SelectSeq(get_all(builtin, plugin), LAMBDA cmd : matches_query(cmd, query)),
                       current_context))

\* iter().find(|c| c.name == name): the first command of that name
find(commands, name) ==
    LET m == SelectSeq(commands, LAMBDA c : c.name = name)
    IN IF m = <<>> THEN None ELSE Some(Head(m))

\* CommandRegistry::find_by_name looking at the built-in commands first
find_by_name_BuiltinFirst(builtin, plugin, name) ==
    LET b == find(builtin, name)
    IN IF b # None THEN b ELSE find(plugin, name)

\* CommandRegistry::find_by_name
find_by_name(builtin, plugin, name) ==
    LET p == find(plugin, name)
    IN IF p # None THEN p ELSE find(builtin, name)

\* CommandRegistry::plugin_command_count
plugin_command_count(plugin) == Len(plugin)

\* CommandRegistry::total_command_count
total_command_count(builtin, plugin) == Len(builtin) + Len(plugin)

\* the RwLock: no writer and no reader
NoThread == "none"
Unlocked == [writer |-> NoThread, readers |-> {}]

Threads == {"t1", "t2", "t3"}
Idle == [at |-> "idle"]

\* ------------------------------------------------------------ state machine

Cursor == [chunk_index |-> chunk_index, line_index_in_chunk |-> line_index_in_chunk,
           chunk_lines |-> chunk_lines, chunks |-> chunks]

NoChunks == [i \in {} |-> Empty]

Init ==
    /\ file \in Files
    /\ chunk_size \in ChunkSizes
    /\ overflow_checks \in BOOLEAN
    /\ chunk_index = 0
    /\ line_index_in_chunk = 0
    /\ chunk_lines = None
    /\ chunks = NoChunks
    /\ status = "running"
    /\ last = [op |-> "new", arg |-> 0]
    /\ result = Unit
    /\ ioLog = <<>>
    /\ loadCount = [i \in 0..MaxChunkIdx |-> 0]
    /\ scan = [active |-> TRUE, calls |-> 0, lines |-> <<>>, ended |-> FALSE]
    /\ builtin_commands = get_all_commands
    /\ plugin_commands = <<>>
    /\ lock = Unlocked
    /\ pc = [t \in Threads |-> Idle]
    /\ stable = {}

\* the load calls of io added to the per-index counters
CountLoads(cnt, io) ==
    [i \in DOMAIN cnt |->
        cnt[i] + Cardinality({k \in 1..Len(io) : io[k].op = "load" /\ io[k].offset = i * chunk_size})]

\* what every operation leaves for the observers
Observe(op, arg, ret, io) ==
    /\ last' = [op |-> op, arg |-> arg]
    /\ result' = ret
    /\ ioLog' = io
    /\ loadCount' = CountLoads(loadCount, io)
    /\ status' = IF ret = Panic THEN "panicked" ELSE "running"
    /\ scan' = IF op = "next_line" /\ scan.active /\ ret # Panic
               THEN [scan EXCEPT !.calls = @ + 1,
                                 !.lines = IF ret.tag = "Some" THEN Append(@, ret.val) ELSE @,
                                 !.ended = (ret = None)]
               ELSE [active |-> FALSE, calls |-> 0, lines |-> <<>>, ended |-> FALSE]
    /\ UNCHANGED <<regVars, thrVars>>

\* the outcomes of the backing-store call an access to chunk `index` may issue:
\* success or an IO failure when the chunk has to be loaded, nothing to fail otherwise
IoOutcomes(index) == IF index \in DOMAIN chunks THEN {TRUE} ELSE BOOLEAN

\* memstore.get(index)
Get(index) ==
    /\ status = "running"
    /\ \E io_ok \in IoOutcomes(index) :
         LET g == Memstore_get(chunks, chunk_size, file, index, io_ok)
         IN /\ chunks' = g.chunks
            /\ Observe("get", index, g.ret, g.io)
    /\ UNCHANGED <<file, chunk_size, overflow_checks, chunk_index, line_index_in_chunk, chunk_lines>>

\* memstore.store_all()
StoreAll ==
    /\ status = "running"
    /\ \E order \in IterOrders(chunks), fail_at \in 0..Cardinality(NeedStore(chunks)) :
         LET r == Memstore_store_all(chunks, chunk_size, file, order, fail_at)
         IN /\ chunks' = r.chunks
            /\ file' = r.file
            /\ Observe("store_all", 0, r.ret, r.io)
    /\ UNCHANGED <<chunk_size, overflow_checks, chunk_index, line_index_in_chunk, chunk_lines>>

\* virtual_file.seek(offset)
Seek(offset) ==
    /\ status = "running"
    /\ \E io_ok \in IoOutcomes(offset \div chunk_size) :
         LET s == seek(Cursor, chunk_size, file, offset, io_ok, overflow_checks)
         IN /\ Len(UnwrapOrEmpty(s.chunk_lines)) <= MaxWindow
            /\ chunk_index' = s.chunk_index
            /\ line_index_in_chunk' = s.line_index_in_chunk
            /\ chunk_lines' = s.chunk_lines
            /\ chunks' = s.chunks
            /\ Observe("seek", offset, s.ret, s.io)
    /\ UNCHANGED <<file, chunk_size, overflow_checks>>

\* virtual_file.next_line()
NextLine ==
    /\ status = "running"
    /\ line_index_in_chunk < MaxLineIdx
    /\ (chunk_index + 1) \div chunk_size <= MaxChunkIdx
    /\ \E io_ok \in IoOutcomes((chunk_index + 1) \div chunk_size) :
         LET s == next_line(Cursor, chunk_size, file, io_ok, overflow_checks)
         IN /\ Len(UnwrapOrEmpty(s.chunk_lines)) <= MaxWindow
            /\ chunk_index' = s.chunk_index
            /\ line_index_in_chunk' = s.line_index_in_chunk
            /\ chunk_lines' = s.chunk_lines
            /\ chunks' = s.chunks
            /\ Observe("next_line", 0, s.ret, s.io)
    /\ UNCHANGED <<file, chunk_size, overflow_checks>>

Next ==
    \/ \E index \in 0..MaxChunkIdx : Get(index)
    \/ \E offset \in 0..((MaxChunkIdx + 1) * chunk_size - 1) : Seek(offset)
    \/ NextLine
    \/ StoreAll

Spec == Init /\ [][Next]_vars

\* ------------------------------------------------------------ mutation
\* VirtualFile::insert / remove are todo!() and Memstore has no get_mut: the
\* source never sets need_store. The write through an exclusive chunk handle is
\* taken from the design (Chunk Store get_mut: "same loading behavior; any write
\* through this handle must mark the chunk dirty").
Memstore_get_mut_write(chs, cs, f, index, data, io_ok) ==
    LET g == Memstore_get(chs, cs, f, index, io_ok)
    IN IF g.ret = Panic THEN g
       ELSE [g EXCEPT !.chunks = [g.chunks EXCEPT ![index] = Loaded(data, TRUE)],
                      !.ret = Unit]

\* the contents a write may give a chunk
WriteData(cs) == {[k \in 1..cs |-> "a"]}

GetMutWrite(index, data) ==
    /\ status = "running"
    /\ \E io_ok \in IoOutcomes(index) :
         LET w == Memstore_get_mut_write(chunks, chunk_size, file, index, data, io_ok)
         IN /\ chunks' = w.chunks
            /\ Observe("write", index, w.ret, w.io)
    /\ UNCHANGED <<file, chunk_size, overflow_checks, chunk_index, line_index_in_chunk, chunk_lines>>

NextMut ==
    \/ \E index \in 0..MaxChunkIdx : Get(index)
    \/ \E index \in 0..MaxChunkIdx : \E data \in WriteData(chunk_size) : GetMutWrite(index, data)
    \/ StoreAll

\* no cursor operation runs in SpecMut, so one build profile stands for both
InitMut == Init /\ overflow_checks

\* the chunk store alone, with a client that writes to chunks
SpecMut == InitMut /\ [][NextMut]_vars

\* ------------------------------------------------------------ line editing
\* VirtualFile::remove, insert and get: each body is todo!(), which panics before
\* it touches the cursor or the chunk store

VirtualFile_remove(c, y) == c @@ [ret |-> Panic, io |-> <<>>]

VirtualFile_insert(c, y, new_line) == c @@ [ret |-> Panic, io |-> <<>>]

VirtualFile_get(c, y) == c @@ [ret |-> Panic, io |-> <<>>]

\* the lines a client inserts
InsertLines == {<<"a">>, <<"b">>, <<"c">>}

\* writing a finished line operation back to the cursor
Commit(op, arg, s) ==
    /\ chunk_index' = s.chunk_index
    /\ line_index_in_chunk' = s.line_index_in_chunk
    /\ chunk_lines' = s.chunk_lines
    /\ chunks' = s.chunks
    /\ Observe(op, arg, s.ret, s.io)
    /\ UNCHANGED <<file, chunk_size, overflow_checks>>

\* virtual_file.remove(y)
Remove(y) ==
    /\ status = "running"
    /\ Commit("remove", y, VirtualFile_remove(Cursor, y))

\* virtual_file.insert(y, new_line)
Insert(y, new_line) ==
    /\ status = "running"
    /\ Commit("insert", y, VirtualFile_insert(Cursor, y, new_line))

\* virtual_file.get(y)
GetLine(y) ==
    /\ status = "running"
    /\ Commit("get_line", y, VirtualFile_get(Cursor, y))

NextEdit ==
    \/ \E offset \in 0..((MaxChunkIdx + 1) * chunk_size - 1) : Seek(offset)
    \/ NextLine
    \/ \E y \in 0..MaxLineIdx : Remove(y)
    \/ \E y \in 0..MaxLineIdx : \E new_line \in InsertLines : Insert(y, new_line)
    \/ \E y \in 0..MaxLineIdx : GetLine(y)
    \/ StoreAll

\* the line cursor with its editing operations and the flush
SpecEdit == Init /\ [][NextEdit]_vars

\* ------------------------------------------------------------ registry calls
\* One caller: every call runs from its lock to its return in one step.

\* the names plugins register: the name of a built-in command, a prefix of it, the
\* same letters in another order, and a name that holds them apart
Names == {SaveFile, <<"S">>, <<"f", "s">>, <<"s", "x", "f">>}
Descriptions == {"v1", "v2"}
ContextSets == {{}, {"Normal"}}
\* the commands plugins register: two versions of each name, and one that only
\* the Normal context offers
Commands == {cmd \in {Command(n, d, c) : n \in Names, d \in Descriptions, c \in ContextSets} :
                cmd.description = "v1" \/ cmd.contexts = {}}
Prefixes == {<<>>, <<"S">>, <<"s">>, <<"f", "s">>}
Queries == {<<>>, <<"s", "f">>, <<"S", "F">>, <<"f", "s">>, <<"x">>}
FindNames == Names \cup {<<"f">>, <<"q">>}

\* the registry is built around a constructed editor that stays untouched
InitReg == Init /\ file = <<>> /\ chunk_size = 1 /\ overflow_checks

\* what a registry call leaves for the observers
RegObserve(op, arg, ret) ==
    /\ last' = [op |-> op, arg |-> arg]
    /\ result' = ret
    /\ UNCHANGED <<bufVars, thrVars, builtin_commands>>

\* what the observers keep of a call that writes: its argument and the number of
\* plugin commands it found
Call(arg, count_before) == [arg |-> arg, count_before |-> count_before]

\* registry.register(command)
Register(command) ==
    /\ Len(register(plugin_commands, command)) <= MaxPlugins
    /\ plugin_commands' = register(plugin_commands, command)
    /\ RegObserve("register", Call(command, Len(plugin_commands)), Unit)

\* registry.unregister(name)
Unregister(name) ==
    /\ plugin_commands' = unregister(plugin_commands, name)
    /\ RegObserve("unregister", Call(name, Len(plugin_commands)), Unit)

\* registry.unregister_by_prefix(prefix)
UnregisterByPrefix(prefix) ==
    /\ plugin_commands' = unregister_by_prefix(plugin_commands, prefix)
    /\ RegObserve("unregister_by_prefix", Call(prefix, Len(plugin_commands)), Unit)

\* registry.get_all()
GetAll ==
    /\ RegObserve("get_all", 0, get_all(builtin_commands, plugin_commands))
    /\ UNCHANGED plugin_commands

\* registry.filter(query, current_context)
Filter(query, current_context) ==
    /\ RegObserve("filter", [query |-> query, current_context |-> current_context],
                  filter(builtin_commands, plugin_commands, query, current_context))
    /\ UNCHANGED plugin_commands

\* registry.find_by_name(name)
FindByName(name) ==
    /\ RegObserve("find_by_name", name, find_by_name(builtin_commands, plugin_commands, name))
    /\ UNCHANGED plugin_commands

\* registry.plugin_command_count()
PluginCommandCount ==
    /\ RegObserve("plugin_command_count", 0, plugin_command_count(plugin_commands))
    /\ UNCHANGED plugin_commands

\* registry.total_command_count()
TotalCommandCount ==
    /\ RegObserve("total_command_count", 0, total_command_count(builtin_commands, plugin_commands))
    /\ UNCHANGED plugin_commands

NextReg ==
    \/ \E command \in Commands : Register(command)
    \/ \E name \in Names : Unregister(name)
    \/ \E prefix \in Prefixes : UnregisterByPrefix(prefix)
    \/ GetAll
    \/ \E query \in Queries : \E current_context \in KeyContext : Filter(query, current_context)
    \/ \E name \in FindNames : FindByName(name)
    \/ PluginCommandCount
    \/ TotalCommandCount

SpecReg == InitReg /\ [][NextReg]_vars

\* ------------------------------------------------------------ concurrent registry calls
\* Several threads share one registry. A call starts by taking the lock, and a
\* thread that cannot take it waits: its first step is enabled once the lock is
\* free for it. Every access to the plugin vector is one step.

ConcNames == {SaveFile, <<"S">>}
ConcCommands == {Command(SaveFile, "v1", {}), Command(SaveFile, "v2", {}), Command(<<"S">>, "v1", {})}
ConcPrefixes == {<<"S">>}

InitConc == InitReg

\* RwLock::write: granted when nobody holds the lock
write(lk, t) == [writer |-> t, readers |-> {}]

\* RwLock::read: granted when no writer holds the lock
read(lk, t) == [lk EXCEPT !.readers = @ \cup {t}]

\* a write guard dropped by thread t
drop_write(lk, t) == IF lk.writer = t THEN [lk EXCEPT !.writer = NoThread] ELSE lk

\* a read guard dropped by thread t
drop_read(lk, t) == [lk EXCEPT !.readers = @ \ {t}]

\* register's guard dropped as soon as the retain is done
guard_after_retain_Dropped(lk, t) == drop_write(lk, t)

\* register's guard `commands` after the retain: held to the end of the body
guard_after_retain(lk, t) == lk

\* thread u is inside an unregister or unregister_by_prefix call that removes name n
Unregistering(u, n) ==
    \/ pc[u].at = "unregister_retain" /\ pc[u].name = n
    \/ pc[u].at = "unregister_by_prefix_retain" /\ starts_with(n, pc[u].prefix)

Goto(t, where) == pc' = [pc EXCEPT ![t] = where]

\* register: let mut commands = self.plugin_commands.write().unwrap()
RegisterLock(t, command) ==
    /\ pc[t] = Idle /\ lock = Unlocked
    /\ lock' = write(lock, t)
    /\ Goto(t, [at |-> "register_retain", command |-> command])
    /\ UNCHANGED <<bufVars, regVars, stable, last, result>>

\* register: commands.retain(|c| c.name != command.name)
RegisterRetain(t) ==
    /\ pc[t].at = "register_retain"
    /\ plugin_commands' = SelectSeq(plugin_commands, LAMBDA c : c.name # pc[t].command.name)
    /\ lock' = guard_after_retain(lock, t)
    /\ Goto(t, [pc[t] EXCEPT !.at = "register_push"])
    /\ UNCHANGED <<bufVars, builtin_commands, stable, last, result>>

\* register: commands.push(command), and the guard goes out of scope
RegisterPush(t) ==
    /\ pc[t].at = "register_push"
    /\ plugin_commands' = Append(plugin_commands, pc[t].command)
    /\ lock' = drop_write(lock, t)
    /\ Goto(t, Idle)
    /\ stable' = IF \E u \in Threads : Unregistering(u, pc[t].command.name)
                 THEN stable ELSE stable \cup {pc[t].command.name}
    /\ UNCHANGED <<bufVars, builtin_commands, last, result>>

\* unregister: the write lock
UnregisterLock(t, name) ==
    /\ pc[t] = Idle /\ lock = Unlocked
    /\ lock' = write(lock, t)
    /\ Goto(t, [at |-> "unregister_retain", name |-> name])
    /\ stable' = stable \ {name}
    /\ UNCHANGED <<bufVars, regVars, last, result>>

\* unregister: commands.retain(|c| c.name != name), and the guard goes out of scope
UnregisterRetain(t) ==
    /\ pc[t].at = "unregister_retain"
    /\ plugin_commands' = unregister(plugin_commands, pc[t].name)
    /\ lock' = drop_write(lock, t)
    /\ Goto(t, Idle)
    /\ UNCHANGED <<bufVars, builtin_commands, stable, last, result>>

\* unregister_by_prefix: the write lock
UnregisterByPrefixLock(t, prefix) ==
    /\ pc[t] = Idle /\ lock = Unlocked
    /\ lock' = write(lock, t)
    /\ Goto(t, [at |-> "unregister_by_prefix_retain", prefix |-> prefix])
    /\ stable' = {n \in stable : ~starts_with(n, prefix)}
    /\ UNCHANGED <<bufVars, regVars, last, result>>

\* unregister_by_prefix: the retain, and the guard goes out of scope
UnregisterByPrefixRetain(t) ==
    /\ pc[t].at = "unregister_by_prefix_retain"
    /\ plugin_commands' = unregister_by_prefix(plugin_commands, pc[t].prefix)
    /\ lock' = drop_write(lock, t)
    /\ Goto(t, Idle)
    /\ UNCHANGED <<bufVars, builtin_commands, stable, last, result>>

\* get_all: the clone of the built-in commands, then the read lock
GetAllLock(t) ==
    /\ pc[t] = Idle /\ lock.writer = NoThread
    /\ lock' = read(lock, t)
    /\ Goto(t, [at |-> "get_all_extend", all_commands |-> builtin_commands])
    /\ UNCHANGED <<bufVars, regVars, stable, last, result>>

\* get_all: all_commands.extend(plugin_commands.iter().cloned()) and the return
GetAllExtend(t) ==
    /\ pc[t].at = "get_all_extend"
    /\ last' = [op |-> "get_all", arg |-> t]
    /\ result' = pc[t].all_commands \o plugin_commands
    /\ lock' = drop_read(lock, t)
    /\ Goto(t, Idle)
    /\ UNCHANGED <<bufVars, regVars, stable>>

\* find_by_name: the read lock
FindByNameLock(t, name) ==
    /\ pc[t] = Idle /\ lock.writer = NoThread
    /\ lock' = read(lock, t)
    /\ Goto(t, [at |-> "find_plugin", name |-> name])
    /\ UNCHANGED <<bufVars, regVars, stable, last, result>>

\* find_by_name: the search of the plugin commands; a hit returns, and the read
\* guard goes out of scope either way
FindByNamePlugin(t) ==
    /\ pc[t].at = "find_plugin"
    /\ LET p == find(plugin_commands, pc[t].name)
       IN IF p # None
          THEN /\ last' = [op |-> "find_by_name", arg |-> pc[t].name]
               /\ result' = p
               /\ Goto(t, Idle)
          ELSE /\ Goto(t, [pc[t] EXCEPT !.at = "find_builtin"])
               /\ UNCHANGED <<last, result>>
    /\ lock' = drop_read(lock, t)
    /\ UNCHANGED <<bufVars, regVars, stable>>

\* find_by_name: the search of the built-in commands
FindByNameBuiltin(t) ==
    /\ pc[t].at = "find_builtin"
    /\ last' = [op |-> "find_by_name", arg |-> pc[t].name]
    /\ result' = find(builtin_commands, pc[t].name)
    /\ Goto(t, Idle)
    /\ UNCHANGED <<bufVars, regVars, lock, stable>>

NextConc ==
    \E t \in Threads :
        \/ \E command \in ConcCommands : RegisterLock(t, command)
        \/ RegisterRetain(t)
        \/ RegisterPush(t)
        \/ \E name \in ConcNames : UnregisterLock(t, name)
        \/ UnregisterRetain(t)
        \/ \E prefix \in ConcPrefixes : UnregisterByPrefixLock(t, prefix)
        \/ UnregisterByPrefixRetain(t)
        \/ GetAllLock(t)
        \/ GetAllExtend(t)
        \/ \E name \in ConcNames : FindByNameLock(t, name)
        \/ FindByNamePlugin(t)
        \/ FindByNameBuiltin(t)

SpecConc == InitConc /\ [][NextConc]_vars

\* ------------------------------------------------------------ SuggestionsRenderer
\* Only the lengths matter to the scroll window: the list of suggestions is its
\* length, the popup its height.

\* usize::saturating_sub
saturating_sub(a, b) == IF a >= b THEN a - b ELSE 0

\* Block::inner with Borders::ALL: the border takes the first and the last row
inner_height(area_height) == saturating_sub(area_height, 2)

\* start_idx of a popup that always shows the first page
start_idx_FirstPage(len, visible_count, selected_suggestion, checks) ==
    [val |-> 0, underflow |-> FALSE, ret |-> Unit]

\* start_idx of render. suggestions.len() - visible_count / 2 is a usize
\* subtraction: below zero it panics with overflow checks and wraps without them,
\* to a value no index of the model reaches (the comparison is then false)
start_idx(len, visible_count, selected_suggestion, checks) ==
    LET half == visible_count \div 2
    IN IF selected_suggestion.tag = "Some"
       THEN LET selected == selected_suggestion.val
            IN IF selected < half
               THEN [val |-> 0, underflow |-> FALSE, ret |-> Unit]
               ELSE IF len < half
               THEN IF checks
                    THEN [val |-> 0, underflow |-> TRUE, ret |-> Panic]
                    ELSE [val |-> saturating_sub(selected, half), underflow |-> TRUE, ret |-> Unit]
               ELSE IF selected >= len - half
               THEN [val |-> saturating_sub(len, visible_count), underflow |-> FALSE, ret |-> Unit]
               ELSE [val |-> saturating_sub(selected, half), underflow |-> FALSE, ret |-> Unit]
       ELSE [val |-> 0, underflow |-> FALSE, ret |-> Unit]

\* SuggestionsRenderer::render up to the slice suggestions[start_idx..end_idx],
\* which panics when start_idx > end_idx
render(len, area_height, selected_suggestion, checks) ==
    IF len = 0 THEN [drawn |-> FALSE, ret |-> Unit]
    ELSE LET visible_count == inner_height(area_height)
             st == start_idx(len, visible_count, selected_suggestion, checks)
             end_idx == Min(st.val + visible_count, len)
         IN IF st.ret = Panic \/ st.val > end_idx
            THEN [drawn |-> FALSE, underflow |-> st.underflow, ret |-> Panic]
            ELSE [drawn |-> TRUE, start_idx |-> st.val, end_idx |-> end_idx,
                  underflow |-> st.underflow, ret |-> Unit]

\* the selections a prompt may hold
Selections == {None} \cup {Some(k) : k \in 0..MaxSuggestions}

InitRender == Init /\ file = <<>> /\ chunk_size = 1

\* SuggestionsRenderer::render(frame, area, prompt, theme)
Render(len, area_height, selected_suggestion) ==
    /\ status = "running"
    /\ LET r == render(len, area_height, selected_suggestion, overflow_checks)
       IN /\ last' = [op |-> "render",
                      arg |-> [len |-> len, visible_count |-> inner_height(area_height),
                               selected_suggestion |-> selected_suggestion]]
          /\ result' = r
          /\ status' = IF r.ret = Panic THEN "panicked" ELSE "running"
    /\ UNCHANGED <<file, chunk_size, overflow_checks, chunk_index, line_index_in_chunk,
                   chunk_lines, chunks, ioLog, loadCount, scan, regVars, thrVars>>

NextRender ==
    \E len \in 0..MaxSuggestions, area_height \in 0..MaxAreaHeight, sel \in Selections :
        Render(len, area_height, sel)

SpecRender == InitRender /\ [][NextRender]_vars

\* ------------------------------------------------------------ properties

\* the logical lines of the file: its text split on the terminator directly
FileLines == Split(Utf8Lossy(file))

\* the lines parse_chunk gives for chunk i of the file
ChunkLines(i) == parse_chunk(ZeroPadded(ReadAt(file, i * chunk_size, chunk_size), chunk_size))

\* the error value the design asks a failed backing-store call to be returned as
IoError(offset) == [tag |-> "Err", offset |-> offset]

Front(q) == SubSeq(q, 1, Len(q) - 1)

\* C1: on a cursor driven from construction by next_line alone, the lines returned
\* so far are the first lines of the file split on '\n', one per call, in order
\* (stated for the files that span more than one chunk).
C1_RoundTrip ==
    (scan.active /\ scan.calls > 0 /\ Len(file) > chunk_size) =>
        /\ Len(scan.lines) <= Len(FileLines)
        /\ scan.lines = SubSeq(FileLines, 1, Len(scan.lines))
        /\ (scan.calls <= Len(FileLines) => Len(scan.lines) = scan.calls)

\* C2: a seek forward by one chunk from a window that ends with the unterminated
\* tail of the current chunk joins that tail with the first line of the new chunk
\* and appends the rest of the new chunk's lines (the boundary lies inside the file).
C2_SpliceAtBoundary ==
    [][(/\ last'.op = "seek" /\ status' = "running"
        /\ chunk_index' = chunk_index + 1
        /\ (chunk_index + 2) * chunk_size <= Len(file)
        /\ chunk_lines = Some(ChunkLines(chunk_index))
        /\ file[(chunk_index + 1) * chunk_size] # NL)
       => chunk_lines' = Some(Front(chunk_lines.val)
                              \o <<chunk_lines.val[Len(chunk_lines.val)] \o Head(ChunkLines(chunk_index'))>>
                              \o Tail(ChunkLines(chunk_index')))]_vars

\* C3: from the state that seeking to chunk k and then to chunk k + 1 produces,
\* seeking back to chunk k gives a window that holds the lines of chunk k once:
\* the window of a direct seek to k, with or without the lines of chunk k + 1
\* (both chunks lie inside the file).
C3_AdjacentSeekRoundTrip ==
    [][(/\ last.op = "seek" /\ last'.op = "seek" /\ status' = "running"
        /\ chunk_index > 0 /\ chunk_index' = chunk_index - 1
        /\ (chunk_index + 1) * chunk_size <= Len(file)
        /\ line_index_in_chunk = 0
        /\ chunk_lines = Some(ChunkLines(chunk_index') \o ChunkLines(chunk_index)))
       => \/ chunk_lines' = Some(ChunkLines(chunk_index'))
          \/ chunk_lines' = Some(ChunkLines(chunk_index') \o ChunkLines(chunk_index))]_vars

\* C4: on a cursor driven from construction by next_line alone, the end-of-stream
\* indicator is returned only once every line of the file has been returned
\* (stated for the files that span more than one chunk).
C4_EndOfStreamOnlyAtEnd ==
    (scan.active /\ scan.ended /\ Len(file) > chunk_size) => scan.lines = FileLines

\* C5: a get that misses the cache issues one load, at index * chunk_size, caches a
\* clean Loaded chunk or Empty and returns it; over an empty backing store get(2)
\* yields Empty.
C5_GetLoadsAndCaches ==
    (last.op = "get" /\ status = "running") =>
        /\ Len(ioLog) <= 1
        /\ ioLog # <<>> => ioLog[1] = LoadCall(last.arg * chunk_size, TRUE)
        /\ last.arg \in DOMAIN chunks
        /\ result = Some(chunks[last.arg])
        /\ ioLog # <<>> => (chunks[last.arg] = Empty
                            \/ (chunks[last.arg].tag = "Loaded" /\ ~chunks[last.arg].need_store))
        /\ (file = <<>> /\ last.arg = 2) => chunks[last.arg] = Empty

\* C6: load is issued at most once per chunk index; once an index is cached no
\* get, seek, next_line or store_all loads it again or changes its entry, and a
\* get returns the cached entry.
C6_LoadAtMostOncePerChunk ==
    /\ [](\A i \in DOMAIN loadCount : loadCount[i] <= 1)
    /\ [][/\ \A i \in DOMAIN chunks :
               i \in DOMAIN chunks' /\ chunks'[i] = chunks[i] /\ loadCount'[i] = loadCount[i]
          /\ (last'.op = "get" /\ last'.arg \in DOMAIN chunks)
                => (ioLog' = <<>> /\ result' = Some(chunks[last'.arg]))]_vars

\* a get served from the cache after the chunk was loaded once
C6_Witness ==
    /\ last.op = "get" /\ status = "running"
    /\ ioLog = <<>>
    /\ loadCount[last.arg] = 1

\* C7: the store calls store_all issues are stores of chunks that were dirty, each
\* at index * chunk_size with the chunk's data and at most once; when it returns,
\* every dirty chunk has been written (none with no dirty chunk).
C7_StoreAllWritesExactlyDirty ==
    [][(last'.op = "store_all") =>
        LET dirty == {i \in DOMAIN chunks : chunks[i].tag = "Loaded" /\ chunks[i].need_store}
        IN /\ \A k \in 1..Len(ioLog') :
                \E i \in dirty : /\ ioLog'[k].op = "store"
                                 /\ ioLog'[k].offset = i * chunk_size
                                 /\ ioLog'[k].data = chunks[i].data
           /\ \A j, k \in 1..Len(ioLog') : ioLog'[j].offset = ioLog'[k].offset => j = k
           /\ status' = "running" => Len(ioLog') = Cardinality(dirty)]_vars

\* store_all has written two dirty chunks and left a clean one alone
C7_Witness ==
    /\ last.op = "store_all" /\ status = "running"
    /\ Len(ioLog) = 2
    /\ Cardinality(DOMAIN chunks) = 3

\* C8: when store_all has returned no cached chunk is dirty, each chunk that was
\* dirty was stored once, and a store_all that follows directly stores nothing.
C8_StoreAllCleans ==
    /\ []((last.op = "store_all" /\ status = "running") =>
            \A i \in DOMAIN chunks : chunks[i].tag = "Loaded" => ~chunks[i].need_store)
    /\ [][(last'.op = "store_all" /\ status' = "running") =>
            /\ \A i \in DOMAIN chunks :
                 (chunks[i].tag = "Loaded" /\ chunks[i].need_store) =>
                    Cardinality({k \in 1..Len(ioLog') : ioLog'[k].offset = i * chunk_size}) = 1
            /\ last.op = "store_all" => (ioLog' = <<>> /\ file' = file)]_vars

\* store_all has flushed a dirty chunk: it is clean and its data is in the file
C8_Witness ==
    /\ last.op = "store_all" /\ status = "running"
    /\ ioLog # <<>>
    /\ \A k \in 1..Len(ioLog) :
         /\ ~chunks[ioLog[k].offset \div chunk_size].need_store
         /\ ReadAt(file, ioLog[k].offset, chunk_size) = ioLog[k].data

\* C9: when a store of a dirty chunk fails, store_all returns an error to its
\* caller and the chunk is still dirty.
C9_FailedStoreReturnsError ==
    \A k \in 1..Len(ioLog) :
        (last.op = "store_all" /\ ~ioLog[k].ok) =>
            /\ status = "running"
            /\ result = IoError(ioLog[k].offset)
            /\ chunks[ioLog[k].offset \div chunk_size].need_store

\* C10: a failed load or store does not panic: the operation returns an IO error
\* carrying the failing offset, and a failed load leaves no entry in the cache.
C10_IoFailureIsReturned ==
    \A k \in 1..Len(ioLog) :
        ~ioLog[k].ok =>
            /\ status = "running"
            /\ result = IoError(ioLog[k].offset)
            /\ ioLog[k].op = "load" => (ioLog[k].offset \div chunk_size) \notin DOMAIN chunks

\* C11: a load that succeeds returns None exactly when its offset lies beyond the
\* bytes the file holds, and the bytes persisted at the offset otherwise.
C11_LoadNoneBeyondExtent ==
    \A k \in 1..Len(ioLog) :
        (ioLog[k].op = "load" /\ ioLog[k].ok /\ last.op \in {"get", "seek", "next_line"}) =>
            LET r == FileLoadStore_load(file, chunk_size, ioLog[k].offset, TRUE)
            IN /\ (r = None) <=> (ioLog[k].offset >= Len(file))
               /\ r # None => (r.tag = "Some" /\ ReadAt(file, ioLog[k].offset, chunk_size)
                                                   = SubSeq(r.val, 1, Len(ReadAt(file, ioLog[k].offset, chunk_size))))

\* C12: an insert through the line cursor completes and leaves the owning chunk
\* dirty, so that a flush has the inserted lines to write back.
C12_InsertMarksChunkDirty ==
    last.op = "insert" => (status = "running" /\ NeedStore(chunks) # {})

\* C13: no step takes an index out of the cache, and a dirty chunk keeps its place
\* and its data (or the data a later write gives it) until store_all has handed
\* that data to the backing store's store.
C13_DirtyChunkStaysCached ==
    [][/\ DOMAIN chunks \subseteq DOMAIN chunks'
       /\ \A i \in NeedStore(chunks) :
            \/ chunks'[i] = chunks[i]
            \/ /\ last'.op = "write" /\ last'.arg = i
               /\ chunks'[i].tag = "Loaded" /\ chunks'[i].need_store
            \/ /\ last'.op = "store_all"
               /\ \E k \in 1..Len(ioLog') :
                    /\ ioLog'[k].op = "store"
                    /\ ioLog'[k].offset = i * chunk_size
                    /\ ioLog'[k].data = chunks[i].data
               /\ chunks'[i].tag = "Loaded" /\ chunks'[i].data = chunks[i].data]_vars

\* a get has just loaded a chunk into a cache that holds a dirty one
C13_Witness ==
    /\ last.op = "get" /\ status = "running"
    /\ ioLog # <<>>
    /\ NeedStore(chunks) # {}
    /\ Cardinality(DOMAIN chunks) >= 2

\* C14: store_all leaves the set of cached indices, the kind of every entry and
\* the data of every chunk as they were, so a get of any cached index returns the
\* content it returned before the flush.
C14_StoreAllKeepsContents ==
    [][(last'.op = "store_all") =>
        /\ DOMAIN chunks' = DOMAIN chunks
        /\ \A i \in DOMAIN chunks :
             /\ chunks'[i].tag = chunks[i].tag
             /\ chunks[i].tag = "Loaded" => chunks'[i].data = chunks[i].data
             /\ LET before == Memstore_get(chunks, chunk_size, file, i, TRUE).ret.val
                    after == Memstore_get(chunks', chunk_size, file', i, TRUE).ret.val
                IN /\ after.tag = before.tag
                   /\ before.tag = "Loaded" => after.data = before.data]_vars

\* store_all has flushed a written chunk, which is still cached with what was written
C14_Witness ==
    /\ last.op = "store_all" /\ status = "running"
    /\ Len(ioLog) >= 1
    /\ \E i \in DOMAIN chunks :
         /\ ioLog[1].offset = i * chunk_size
         /\ chunks[i] = Loaded(ioLog[1].data, FALSE)
         /\ chunks[i].data \in WriteData(chunk_size)

\* the positions of the commands named n in a vector of commands
Named(commands, n) == {k \in 1..Len(commands) : commands[k].name = n}

\* q is a subsequence of str: its characters occur in str in order
IsSubsequence(q, str) ==
    \E f \in [1..Len(q) -> 1..Len(str)] :
        /\ \A i, j \in 1..Len(q) : i < j => f[i] < f[j]
        /\ \A i \in 1..Len(q) : str[f[i]] = q[i]

\* C15: the plugin command names are pairwise distinct in every state; a register
\* of a name already registered leaves plugin_command_count as it was, and
\* find_by_name of that name then returns the command just registered.
C15_RegisterReplaces ==
    /\ [](\A n \in Names : Cardinality(Named(plugin_commands, n)) <= 1)
    /\ [][(last'.op = "register") =>
            /\ Named(plugin_commands, last'.arg.arg.name) # {}
                 => plugin_command_count(plugin_commands') = plugin_command_count(plugin_commands)
            /\ find_by_name(builtin_commands', plugin_commands', last'.arg.arg.name)
                 = Some(last'.arg.arg)]_vars

\* a second version of a registered name has just replaced the first
C15_Witness ==
    /\ last.op = "register"
    /\ last.arg.arg.description = "v2"
    /\ last.arg.count_before = Len(plugin_commands)
    /\ Len(plugin_commands) = 2

\* C16: find_by_name returns the plugin command of the name when there is one,
\* else the built-in command of the name, else None.
C16_FindPrefersPlugin ==
    (last.op = "find_by_name") =>
        LET P == Named(plugin_commands, last.arg)
            B == Named(builtin_commands, last.arg)
        IN IF P # {} THEN \E k \in P : result = Some(plugin_commands[k])
           ELSE IF B # {} THEN \E k \in B : result = Some(builtin_commands[k])
           ELSE result = None

\* find_by_name("Save File") has returned the plugin command that overrides the built-in
C16_Witness ==
    /\ last.op = "find_by_name" /\ last.arg = SaveFile
    /\ Named(builtin_commands, SaveFile) # {}
    /\ result.tag = "Some" /\ result.val.description = "v2"

\* C17: unregister_by_prefix(p) keeps exactly the plugin commands whose name does
\* not start with p and unregister(n) exactly those not named n, in the order
\* they had; the built-in commands are untouched.
C17_UnregisterRemovesExactly ==
    [][(last'.op \in {"unregister", "unregister_by_prefix"}) =>
        LET a == last'.arg.arg
            goes(c) == IF last'.op = "unregister" THEN c.name = a
                       ELSE \E n \in 0..Len(c.name) : SubSeq(c.name, 1, n) = a
            kept == {k \in 1..Len(plugin_commands) : ~goes(plugin_commands[k])}
        IN /\ builtin_commands' = builtin_commands
           /\ Len(plugin_commands') = Cardinality(kept)
           /\ \E f \in [1..Len(plugin_commands') -> kept] :
                /\ \A i, j \in 1..Len(plugin_commands') : i < j => f[i] < f[j]
                /\ \A i \in 1..Len(plugin_commands') : plugin_commands'[i] = plugin_commands[f[i]]]_vars

\* unregister_by_prefix("S") has removed one of three commands and kept the other
\* two, neither of which starts with "S"
C17_Witness ==
    /\ last.op = "unregister_by_prefix" /\ last.arg.arg = <<"S">>
    /\ last.arg.count_before = 3
    /\ Len(plugin_commands) = 2

\* C18: filter returns one suggestion for each command of get_all() whose
\* lower-cased name has the lower-cased query as a subsequence, and no other; the
\* empty query matches every command.
C18_FilterMatchesSubsequence ==
    (last.op = "filter") =>
        LET all == get_all(builtin_commands, plugin_commands)
            M == {k \in 1..Len(all) :
                     IsSubsequence(to_lowercase(last.arg.query), to_lowercase(all[k].name))}
            of(k) == {j \in 1..Len(result) : /\ result[j].text = all[k].name
                                             /\ result[j].description = all[k].description}
        IN /\ Len(result) = Cardinality(M)
           /\ \A k \in M : Cardinality(of(k)) = 1
           /\ \A j \in 1..Len(result) : \E k \in M : j \in of(k)
           /\ last.arg.query = <<>> => Len(result) = Len(all)

\* filter("sf") has returned "Save File" and a name that holds s and f apart, and
\* left out a registered name that holds them in the other order
C18_Witness ==
    /\ last.op = "filter" /\ last.arg.query = <<"s", "f">>
    /\ \E j \in 1..Len(result) : result[j].text = SaveFile
    /\ \E j \in 1..Len(result) : result[j].text = <<"s", "x", "f">>
    /\ Named(plugin_commands, <<"f", "s">>) # {}
    /\ \A j \in 1..Len(result) : result[j].text # <<"f", "s">>

\* C19: in the result of filter a suggestion is disabled exactly when its command
\* has contexts and the current one is not among them; every matching command
\* that is not available is present; the suggestions that are not disabled come
\* first; and inside each group the suggestions are in get_all() order.
C19_FilterDisablesAndOrders ==
    (last.op = "filter") =>
        LET all == get_all(builtin_commands, plugin_commands)
            ctx == last.arg.current_context
            off(c) == c.contexts # {} /\ ctx \notin c.contexts
            pos(x) == CHOOSE k \in 1..Len(all) : /\ all[k].name = x.text
                                                 /\ all[k].description = x.description
        IN /\ \A j \in 1..Len(result) : result[j].disabled <=> off(all[pos(result[j])])
           /\ \A k \in 1..Len(all) :
                (off(all[k]) /\ IsSubsequence(to_lowercase(last.arg.query), to_lowercase(all[k].name)))
                    => \E j \in 1..Len(result) :
                          result[j] = Suggestion(all[k].name, all[k].description, TRUE)
           /\ \A i, j \in 1..Len(result) :
                (i < j) => /\ ~(result[i].disabled /\ ~result[j].disabled)
                           /\ (result[i].disabled = result[j].disabled)
                                => pos(result[i]) < pos(result[j])

\* filter has moved a disabled built-in command behind an available plugin command
C19_Witness ==
    /\ last.op = "filter"
    /\ \E i, j \in 1..Len(result) :
         /\ i < j
         /\ ~result[i].disabled /\ result[i].description # "builtin"
         /\ result[j].disabled /\ result[j].description = "builtin"

\* C20: whenever the lock is not held for writing, no name has two plugin
\* commands and every name that stays registered has exactly one; a get_all that
\* returns holds exactly one plugin command for each such name, and a
\* find_by_name of such a name finds its plugin command under the read lock.
C20_CallsAreAtomic ==
    /\ [](lock.writer = NoThread =>
            \A n \in ConcNames : /\ Cardinality(Named(plugin_commands, n)) <= 1
                                 /\ n \in stable => Cardinality(Named(plugin_commands, n)) = 1)
    /\ [][/\ (\E t \in Threads : pc[t].at = "get_all_extend" /\ pc'[t] = Idle)
               => \A n \in stable :
                     Cardinality({k \in Named(result', n) : result'[k].description # "builtin"}) = 1
          /\ \A t \in Threads :
               (pc[t].at = "find_plugin" /\ pc'[t] # pc[t] /\ pc[t].name \in stable)
                  => /\ pc'[t] = Idle
                     /\ result'.tag = "Some" /\ result'.val.name = pc[t].name
                     /\ result'.val.description # "builtin"]_vars

\* a register of a name that stays registered is half done (the old command is
\* out, the new one not yet in) and holds the lock; the get_all that returned
\* last saw the name once
C20_Witness ==
    \E t \in Threads :
        /\ pc[t].at = "register_push"
        /\ pc[t].command.name \in stable
        /\ Named(plugin_commands, pc[t].command.name) = {}
        /\ lock.writer = t
        /\ last.op = "get_all"
        /\ Cardinality({k \in Named(result, pc[t].command.name) : result[k].description # "builtin"}) = 1

\* C21: a next_line that advances the line index past the last line of the window
\* moves the cursor to the next chunk and returns the line at the advanced index
\* of the extended window (the window is materialized, the next chunk lies inside
\* the file and its load succeeds).
C21_NextLineAdvancesOneChunk ==
    [][(/\ last'.op = "next_line" /\ status' = "running"
        /\ chunk_lines.tag = "Some"
        /\ line_index_in_chunk + 1 >= Len(chunk_lines.val)
        /\ (chunk_index + 2) * chunk_size <= Len(file))
       => /\ chunk_index' = chunk_index + 1
          /\ line_index_in_chunk' = line_index_in_chunk + 1
          /\ result' = LineAt(chunk_lines', line_index_in_chunk + 1)]_vars

\* C22: a seek that moves by one chunk keeps the cursor on its line: forward the
\* line index is unchanged, backward it grows by the number of lines of the chunk
\* put in front (the window is materialized).
C22_AdjacentSeekKeepsLine ==
    [][(/\ last'.op = "seek" /\ status' = "running"
        /\ chunk_lines.tag = "Some"
        /\ (chunk_index + 1) * chunk_size <= Len(file))
       => /\ chunk_index' = chunk_index + 1 => line_index_in_chunk' = line_index_in_chunk
          /\ (chunk_index > 0 /\ chunk_index' = chunk_index - 1)
               => line_index_in_chunk' = line_index_in_chunk + Len(ChunkLines(chunk_index'))]_vars

\* C23: a seek to a chunk that is neither the current one nor next to it, whose
\* load does not fail, leaves the window with exactly the lines of the target
\* chunk, the cursor on the target chunk and the line index at 0.
C23_JumpReplacesWindow ==
    [][(/\ last'.op = "seek"
        /\ last'.arg \div chunk_size \notin {chunk_index - 1, chunk_index, chunk_index + 1}
        /\ \A k \in 1..Len(ioLog') : ioLog'[k].ok)
       => /\ status' = "running"
          /\ chunk_index' = last'.arg \div chunk_size
          /\ chunk_lines' = Some(ChunkLines(chunk_index'))
          /\ line_index_in_chunk' = 0]_vars

\* C24: a seek whose offset lies in the current chunk changes nothing: the chunk
\* index, the window, the line index and the cache stay as they are and no load
\* is issued.
C24_SeekSameChunkIsNoOp ==
    [][(last'.op = "seek" /\ last'.arg \div chunk_size = chunk_index)
       => /\ status' = "running"
          /\ ioLog' = <<>>
          /\ UNCHANGED <<chunk_index, chunk_lines, line_index_in_chunk, chunks, file>>]_vars

\* a seek inside the current chunk has left a cursor that stands past line 0 of
\* its window where it was (every seek that moves ends on line 0)
C24_Witness ==
    /\ last.op = "seek" /\ status = "running"
    /\ last.arg \div chunk_size = chunk_index
    /\ chunk_lines.tag = "Some"
    /\ line_index_in_chunk > 0

\* C25: after a seek has replaced the window by the lines of one chunk whose
\* neighbours are not loaded, a line next_line hands out is a whole line of the
\* file, never a piece cut off at a chunk boundary (the chunks read lie inside
\* the file).
C25_NoFragmentAsWholeLine ==
    [][(/\ last.op = "seek" /\ chunk_lines = Some(ChunkLines(chunk_index))
        /\ (chunk_index + 1) \notin DOMAIN chunks
        /\ (chunk_index = 0 \/ (chunk_index - 1) \notin DOMAIN chunks)
        /\ last'.op = "next_line" /\ status' = "running"
        /\ (chunk_index' + 1) * chunk_size <= Len(file)
        /\ result'.tag = "Some")
       => \E k \in 1..Len(FileLines) : result'.val = FileLines[k]]_vars

\* C26: under get, seek, next_line and store_all no cached chunk is dirty: a
\* chunk is clean when it is loaded, no operation sets its flag, and store_all
\* finds nothing to write.
C26_CleanWithoutMutation ==
    /\ \A i \in DOMAIN chunks : chunks[i].tag = "Loaded" => ~chunks[i].need_store
    /\ \A k \in 1..Len(ioLog) : ioLog[k].op # "store"

\* a store_all has run over a cache that holds chunks loaded by get and by the cursor
C26_Witness ==
    /\ last.op = "store_all" /\ status = "running"
    /\ Cardinality(DOMAIN chunks) >= 2
    /\ chunk_lines.tag = "Some"

\* C27: when a seek has returned, the cursor is on chunk offset / chunk_size, and
\* if the store holds that chunk Loaded the window is materialized and holds the
\* lines parsed from it, next to each other (the offset lies inside the file).
C27_SeekLandsOnChunk ==
    (last.op = "seek" /\ status = "running" /\ last.arg < Len(file)) =>
        /\ chunk_index = last.arg \div chunk_size
        /\ (chunk_index \in DOMAIN chunks /\ chunks[chunk_index].tag = "Loaded") =>
             /\ chunk_lines.tag = "Some"
             /\ \E k \in 0..Len(chunk_lines.val) :
                  SubSeq(chunk_lines.val, k + 1, k + Len(ChunkLines(chunk_index)))
                      = ChunkLines(chunk_index)

\* C28: a seek or a next_line whose backing-store calls all succeed runs to its
\* end: none of old_index + 1, old_index - 1 and chunk_index + 1 leaves u64.
C28_NoArithmeticOverflow ==
    (last.op \in {"seek", "next_line"} /\ \A k \in 1..Len(ioLog) : ioLog[k].ok)
        => status = "running"

\* C29: no two of the commands get_all() returns, and no two of the suggestions
\* filter() returns, have the same name.
C29_ListingHasDistinctNames ==
    /\ (last.op = "get_all") =>
          \A i, j \in 1..Len(result) : result[i].name = result[j].name => i = j
    /\ (last.op = "filter") =>
          \A i, j \in 1..Len(result) : result[i].text = result[j].text => i = j

\* C30: when the popup has a visible row and the selection s is an index of the
\* list, render does not panic, the subtraction len - visible_count / 2 does not
\* underflow, and the range it draws contains s and ends within the list.
C30_SelectedStaysVisible ==
    (/\ last.op = "render"
     /\ last.arg.visible_count >= 1
     /\ last.arg.selected_suggestion.tag = "Some"
     /\ last.arg.selected_suggestion.val < last.arg.len)
    => /\ result.ret = Unit /\ result.drawn
       /\ ~result.underflow
       /\ result.start_idx <= last.arg.selected_suggestion.val
       /\ last.arg.selected_suggestion.val < result.end_idx
       /\ result.end_idx <= last.arg.len

\* the selection lies beyond the first page and the range drawn has scrolled to it
C30_Witness ==
    /\ last.op = "render" /\ status = "running"
    /\ last.arg.visible_count >= 1
    /\ last.arg.selected_suggestion.tag = "Some"
    /\ last.arg.selected_suggestion.val >= last.arg.visible_count
    /\ last.arg.selected_suggestion.val < last.arg.len
    /\ result.start_idx > 0
    /\ result.start_idx <= last.arg.selected_suggestion.val
    /\ last.arg.selected_suggestion.val < result.end_idx

====
